---- MODULE Spec2Model ----
(***************************************************************************)
(* Model of the WLED Battery usermod (class UsermodBattery,               *)
(* usermods/Battery/usermod_v2_Battery.h): the threshold setters, the     *)
(* configuration load, the periodic loop() with its sampling schedule,    *)
(* the auto-off policy and the low-power indicator.                       *)
(*                                                                         *)
(* Thresholds, presets and durations are int8_t as the class declares     *)
(* them.  Times are milliseconds in an unsigned 32-bit long; a time is    *)
(* held here as the two's-complement reading of that 32-bit word, so the  *)
(* word 2^32 - k is the integer -k and 0 follows -1 (the rollover of      *)
(* millis()).  Sums of such words are plain sums as long as they stay     *)
(* within 2^31 of zero, which every sum of the model does; the order of   *)
(* the unsigned words is ULt / ULe.  Voltages are kept in millivolts.     *)
(***************************************************************************)
EXTENDS Integers, Sequences, FiniteSets, TLC

\* ------------------------------------------------------------------ widths

\* unsigned long on the ESP targets: 32 bits.  ULong(x) is the word holding x
\* (see above: for |x| < 2^31 the two's-complement reading of x itself)
ULong(x) == x

\* a < b and a <= b as unsigned words: the words read as negative are the large ones
ULt(a, b) == IF (a < 0) = (b < 0) THEN a < b ELSE b < 0

ULe(a, b) == a = b \/ ULt(a, b)

\* conversion of an int to int8_t (two's complement wrap)
ToInt8(x) == ((x + 128) % 256) - 128

Int8 == -128..127

Min(a, b) == IF a <= b THEN a ELSE b

Max(a, b) == IF a >= b THEN a ELSE b

\* ------------------------------------------------- compiled-in defaults
\* battery_defaults.h is not part of the sources at hand; the values are the
\* defaults the field initializers of the class refer to.

DefaultPin == 35

DefaultInterval == 30000

DefaultAutoOffEnabled == TRUE

DefaultAutoOffThreshold == 10

DefaultIndicatorEnabled == FALSE

DefaultIndicatorPreset == 0

DefaultIndicatorThreshold == 20

DefaultIndicatorDuration == 5

\* ------------------------------------------------------------ the battery
\* battery.h, lipo.h, lion.h, unkown.h are not part of the sources at hand.

Chemistries == {"unknown", "lipo", "lion"}

MinVoltage == 3200

MaxVoltage == 4200

\* level and voltage of a battery object that has not been measured yet
InitialLevel == 100

InitialVoltage == -1

\* calibration offset added to the reading (millivolts)
Calibration == 0

\* linear discharge curve between MinVoltage and MaxVoltage, clamped to 0..100
mapVoltage(v) == Max(0, Min(100, ((v - MinVoltage) * 100) \div (MaxVoltage - MinVoltage)))

\* Battery::calculateAndSetLevel : the Unknown chemistry never reports a level
calculateLevel(type, v) == IF type = "unknown" THEN -1 ELSE mapVoltage(v)

\* the class setup() instantiates for a configured type
batteryFor(type) == IF type = "lipo" THEN "lipo" ELSE IF type = "lion" THEN "lion" ELSE "unknown"

\* ------------------------------------------------------------------ bounds

\* the usermod is first called BootSeconds after power-on, when the clock
\* started at 0
BootSeconds == 1

\* the clock is followed up to MaxSeconds after power-on
MaxSeconds == 8

MaxNow == MaxSeconds * 1000

\* the rollover is approached from LeadSeconds before it and the clock is
\* followed for PostSeconds after it
LeadSeconds == 1

PostSeconds == 1

PostNow == PostSeconds * 1000

\* configuration reloads followed in one behaviour of Spec, after the boot load
MaxWrites == 1

\* setter calls followed in one behaviour of SpecSave
MaxCalls == 3

\* ------------------------------------------------------------------- state

VARIABLES
  batteryPin,
  bcfgType,
  batType,
  voltage,
  level,
  readingInterval,
  nextReadTime,
  lastReadTime,
  autoOffEnabled,
  autoOffThreshold,
  lowPowerIndicatorEnabled,
  lowPowerIndicatorPreset,
  lowPowerIndicatorThreshold,
  lowPowerIndicatorReactivationThreshold,
  lowPowerIndicatorDuration,
  lowPowerIndicationDone,
  lowPowerActivationTime,
  lastPreset,
  initDone,
  initializing,
  now,
  bri,
  currentPreset,
  ev,
  hist,
  writes,
  rolled,
  sampledOnce,
  saved

cfgVars == <<batteryPin, bcfgType, readingInterval, autoOffEnabled, autoOffThreshold,
             lowPowerIndicatorEnabled, lowPowerIndicatorPreset, lowPowerIndicatorThreshold,
             lowPowerIndicatorReactivationThreshold, lowPowerIndicatorDuration>>

batVars == <<batType, voltage, level>>

\* sampledOnce observes whether loop() has taken a reading yet
schedVars == <<nextReadTime, lastReadTime, initDone, initializing, sampledOnce>>

indVars == <<lowPowerIndicationDone, lowPowerActivationTime, lastPreset>>

hostVars == <<bri, currentPreset>>

\* saved is the configuration file: the document addToConfig wrote last
vars == <<cfgVars, batVars, schedVars, indVars, hostVars, now, ev, hist, writes, rolled,
          sampledOnce, saved>>

\* -------------------------------------------------- inputs of the model

\* thresholds, durations and pins of the documents tried by Spec (the engine)
ThrArgs == {120}

DurArgs == {0}

PinArgs == {-1, 34}

\* arguments tried by SpecCfg (the configuration alone)
CfgThrArgs == {-128, 0, 5, 15, 20, 100, 127}

CfgIntervalArgs == {2999, 4000}

CfgPresetArgs == {3}

CfgDurArgs == {2}

\* presets the user selects on the host
HostPresets == {1}

\* analog readings (millivolts at the pin; the divider halves the battery voltage)
RawReadings == {1650, 1700, 1775}

\* the instant shortly before the 32-bit clock rolls over
NearRollover == ULong(0 - LeadSeconds * 1000)

\* the clock is observed at the full seconds, up to MaxNow and again from
\* NearRollover on
OnGrid(t) ==
  \/ t >= 0 /\ t <= MaxNow /\ (t % 1000) = 0
  \/ t < 0 /\ t >= NearRollover /\ (t % 1000) = 0

ClockSteps == {1000}

\* the step from t to the instant shortly before the rollover, for a usermod
\* that is not called for that long
FarStep(t) == ULong(NearRollover - t)

\* ------------------------------------------- what an operation was seen to do
\* ev describes the last operation: which one, what the tick saw and did.
\* hist follows one indication from its entry to its completion.

NoEv(op) ==
  [op |-> op, skipped |-> FALSE, lvl |-> 0, active0 |-> FALSE, armed |-> "fresh",
   t0 |-> 0, prev |-> 0, cfgSame |-> FALSE, low |-> FALSE, entries |-> 0,
   entered |-> FALSE, completed |-> FALSE, applied |-> <<>>, due |-> FALSE,
   sampled |-> FALSE, turnedOff |-> FALSE, again |-> FALSE, ret |-> FALSE,
   arg |-> 0, doc |-> <<FALSE, FALSE>>]

NoHist ==
  [active |-> FALSE, t0 |-> 0, prev |-> 0, cfgSame |-> TRUE, low |-> TRUE,
   armed |-> "fresh", entries |-> 0]

\* ---------------------------------------------------------------- setters

\* a setReadingInterval without the minimum
readingIntervalForUnclamped(newReadingInterval) == newReadingInterval

\* setReadingInterval : minimum repetition is 3000 ms
readingIntervalFor(newReadingInterval) == Max(3000, newReadingInterval)

\* a setAutoOffThreshold that lets the auto-off threshold reach the indicator
\* threshold
autoOffThresholdForInclusive(threshold, indicatorEnabled, indicatorThreshold) ==
  LET t == Min(100, Max(0, threshold))
  IN  IF indicatorEnabled THEN ToInt8(Min(indicatorThreshold, t)) ELSE t

\* setAutoOffThreshold : clamp to 0..100, then below the indicator threshold
\* when the indicator is enabled; the int result is stored in an int8_t
autoOffThresholdFor(threshold, indicatorEnabled, indicatorThreshold) ==
  LET t == Min(100, Max(0, threshold))
  IN  IF indicatorEnabled THEN ToInt8(Min(indicatorThreshold - 1, t)) ELSE t

\* setLowPowerIndicatorThreshold : above the auto-off threshold when auto-off
\* is enabled, else at least 5; the int result is stored in an int8_t
indicatorThresholdFor(threshold, offEnabled, offThreshold) ==
  IF offEnabled THEN ToInt8(Max(offThreshold + 1, threshold))
                ELSE ToInt8(Max(5, threshold))

\* lowPowerIndicatorThreshold+10 stored in an int8_t
reactivationThresholdFor(indicatorThreshold) == ToInt8(indicatorThreshold + 10)

\* a configuration write is counted when a specification follows no more
\* than cap of them (cap 0: not counted) and ends
\* the "configuration unchanged" stretch of a running indication
Written(cap) ==
  /\ IF cap > 0 THEN writes < cap /\ writes' = writes + 1 ELSE UNCHANGED writes
  /\ hist' = IF hist.active THEN [hist EXCEPT !.cfgSame = FALSE] ELSE hist

setReadingInterval(c, x) ==
  /\ Written(c)
  /\ readingInterval' = readingIntervalFor(x)
  /\ ev' = [NoEv("setReadingInterval") EXCEPT !.arg = x]
  /\ UNCHANGED <<batteryPin, bcfgType, autoOffEnabled, autoOffThreshold,
                 lowPowerIndicatorEnabled, lowPowerIndicatorPreset, lowPowerIndicatorThreshold,
                 lowPowerIndicatorReactivationThreshold, lowPowerIndicatorDuration>>
  /\ UNCHANGED <<batVars, schedVars, indVars, hostVars, now, rolled, saved>>

setAutoOffEnabled(c, enabled) ==
  /\ Written(c)
  /\ autoOffEnabled' = enabled
  /\ ev' = NoEv("set")
  /\ UNCHANGED <<batteryPin, bcfgType, readingInterval, autoOffThreshold,
                 lowPowerIndicatorEnabled, lowPowerIndicatorPreset, lowPowerIndicatorThreshold,
                 lowPowerIndicatorReactivationThreshold, lowPowerIndicatorDuration>>
  /\ UNCHANGED <<batVars, schedVars, indVars, hostVars, now, rolled, saved>>

setAutoOffThreshold(c, threshold) ==
  /\ Written(c)
  /\ autoOffThreshold' =
       autoOffThresholdFor(threshold, lowPowerIndicatorEnabled, lowPowerIndicatorThreshold)
  /\ ev' = [NoEv("setAutoOffThreshold") EXCEPT !.arg = threshold]
  /\ UNCHANGED <<batteryPin, bcfgType, readingInterval, autoOffEnabled,
                 lowPowerIndicatorEnabled, lowPowerIndicatorPreset, lowPowerIndicatorThreshold,
                 lowPowerIndicatorReactivationThreshold, lowPowerIndicatorDuration>>
  /\ UNCHANGED <<batVars, schedVars, indVars, hostVars, now, rolled, saved>>

setLowPowerIndicatorEnabled(c, enabled) ==
  /\ Written(c)
  /\ lowPowerIndicatorEnabled' = enabled
  /\ ev' = NoEv("set")
  /\ UNCHANGED <<batteryPin, bcfgType, readingInterval, autoOffEnabled, autoOffThreshold,
                 lowPowerIndicatorPreset, lowPowerIndicatorThreshold,
                 lowPowerIndicatorReactivationThreshold, lowPowerIndicatorDuration>>
  /\ UNCHANGED <<batVars, schedVars, indVars, hostVars, now, rolled, saved>>

setLowPowerIndicatorPreset(c, presetId) ==
  /\ Written(c)
  /\ lowPowerIndicatorPreset' = presetId
  /\ ev' = NoEv("set")
  /\ UNCHANGED <<batteryPin, bcfgType, readingInterval, autoOffEnabled, autoOffThreshold,
                 lowPowerIndicatorEnabled, lowPowerIndicatorThreshold,
                 lowPowerIndicatorReactivationThreshold, lowPowerIndicatorDuration>>
  /\ UNCHANGED <<batVars, schedVars, indVars, hostVars, now, rolled, saved>>

\* the setter leaves lowPowerIndicatorReactivationThreshold as it is
setLowPowerIndicatorThreshold(c, threshold) ==
  /\ Written(c)
  /\ lowPowerIndicatorThreshold' =
       indicatorThresholdFor(threshold, autoOffEnabled, autoOffThreshold)
  /\ ev' = [NoEv("setLowPowerIndicatorThreshold") EXCEPT !.arg = threshold]
  /\ UNCHANGED <<batteryPin, bcfgType, readingInterval, autoOffEnabled, autoOffThreshold,
                 lowPowerIndicatorEnabled, lowPowerIndicatorPreset,
                 lowPowerIndicatorReactivationThreshold, lowPowerIndicatorDuration>>
  /\ UNCHANGED <<batVars, schedVars, indVars, hostVars, now, rolled, saved>>

setLowPowerIndicatorDuration(c, duration) ==
  /\ Written(c)
  /\ lowPowerIndicatorDuration' = duration
  /\ ev' = NoEv("set")
  /\ UNCHANGED <<batteryPin, bcfgType, readingInterval, autoOffEnabled, autoOffThreshold,
                 lowPowerIndicatorEnabled, lowPowerIndicatorPreset, lowPowerIndicatorThreshold,
                 lowPowerIndicatorReactivationThreshold>>
  /\ UNCHANGED <<batVars, schedVars, indVars, hostVars, now, rolled, saved>>

\* ------------------------------------------------------ configuration load
\* A document is a record of optional values: <<present, value>>.  The int8_t
\* and bool fields are read with  doc[key] | current , which keeps the current
\* value when the key is missing.

Absent == <<FALSE, 0>>

AbsentFlag == <<FALSE, FALSE>>

AbsentType == <<FALSE, "unknown">>

Val(v) == <<TRUE, v>>

Pick(opt, current) == IF opt[1] THEN opt[2] ELSE current

\* a document without the "Battery" object
NoBattery ==
  [battery |-> FALSE, pin |-> Absent, type |-> AbsentType, interval |-> Absent,
   aoEnabled |-> AbsentFlag, aoThreshold |-> Absent, lpEnabled |-> AbsentFlag,
   lpPreset |-> Absent, lpThreshold |-> Absent, lpDuration |-> Absent]

\* a load that always reports a complete configuration
configCompleteAlways(doc) == TRUE

\* the value readFromConfig returns for a document with the Battery object
configComplete(doc) == doc.interval[1]

\* setup() : allocate the pin, instantiate the battery, schedule the first reading
setupEffects(pin, type, interval, alloc) ==
  /\ batteryPin' = IF pin >= 0 /\ alloc THEN pin ELSE -1
  /\ batType' = batteryFor(type)
  /\ voltage' = InitialVoltage
  /\ level' = InitialLevel
  /\ nextReadTime' = ULong(now + interval)
  /\ lastReadTime' = now
  /\ initDone' = TRUE

setup(alloc) ==
  /\ ~initDone
  /\ setupEffects(batteryPin, bcfgType, readingInterval, alloc)
  /\ ev' = NoEv("setup")
  /\ UNCHANGED <<bcfgType, readingInterval, autoOffEnabled, autoOffThreshold,
                 lowPowerIndicatorEnabled, lowPowerIndicatorPreset, lowPowerIndicatorThreshold,
                 lowPowerIndicatorReactivationThreshold, lowPowerIndicatorDuration>>
  /\ UNCHANGED <<initializing, sampledOnce, indVars, hostVars, now, hist, writes, rolled, saved>>

\* what a load of doc writes through the setters, which run in the order of
\* the source: the auto-off threshold is resolved against the indicator
\* settings held before the load and the indicator threshold against the
\* auto-off settings just loaded
loadedConfig(doc) ==
  LET offEnabled1 == Pick(doc.aoEnabled, autoOffEnabled)
      offThreshold1 ==
        autoOffThresholdFor(Pick(doc.aoThreshold, autoOffThreshold),
                            lowPowerIndicatorEnabled, lowPowerIndicatorThreshold)
      threshold1 ==
        indicatorThresholdFor(Pick(doc.lpThreshold, lowPowerIndicatorThreshold),
                              offEnabled1, offThreshold1)
  IN  [readingInterval |-> readingIntervalFor(Pick(doc.interval, readingInterval)),
       autoOffEnabled |-> offEnabled1,
       autoOffThreshold |-> offThreshold1,
       lowPowerIndicatorEnabled |-> Pick(doc.lpEnabled, lowPowerIndicatorEnabled),
       lowPowerIndicatorPreset |-> Pick(doc.lpPreset, lowPowerIndicatorPreset),
       lowPowerIndicatorThreshold |-> threshold1,
       lowPowerIndicatorReactivationThreshold |-> reactivationThresholdFor(threshold1),
       lowPowerIndicatorDuration |-> Pick(doc.lpDuration, lowPowerIndicatorDuration)]

\* addToConfig : the document written for the configuration held now.  The
\* function reads the voltage limits through the battery object, which
\* setup() creates: before setup() the pointer is null, the call through it
\* ends the process and no document is written.
addToConfig ==
  IF batType = "none"
  THEN [crashed |-> TRUE, doc |-> NoBattery]
  ELSE [crashed |-> FALSE,
        doc |-> [battery |-> TRUE, pin |-> Val(batteryPin), type |-> Val(bcfgType),
                 interval |-> Val(readingInterval),
                 aoEnabled |-> Val(autoOffEnabled),
                 aoThreshold |-> Val(autoOffThreshold),
                 lpEnabled |-> Val(lowPowerIndicatorEnabled),
                 lpPreset |-> Val(lowPowerIndicatorPreset),
                 lpThreshold |-> Val(lowPowerIndicatorThreshold),
                 lpDuration |-> Val(lowPowerIndicatorDuration)]]

\* readFromConfig : nothing without the Battery object; else the setters, then
\* the pin (setup() again when it changed after the first setup())
\* (cfg1 is bound by \E so that the load is computed once)
readFromConfig(c, doc, alloc) ==
  IF ~doc.battery
  THEN /\ ev' = NoEv("readFromConfig")
       /\ UNCHANGED <<cfgVars, batVars, schedVars, indVars, hostVars, now, hist, writes, rolled, saved>>
  ELSE \E cfg1 \in {loadedConfig(doc)} :
       LET newBatteryPin == Pick(doc.pin, batteryPin)
           type1 == Pick(doc.type, bcfgType)
           interval1 == cfg1.readingInterval
       IN  /\ Written(c)
           /\ bcfgType' = type1
           /\ readingInterval' = interval1
           /\ autoOffEnabled' = cfg1.autoOffEnabled
           /\ autoOffThreshold' = cfg1.autoOffThreshold
           /\ lowPowerIndicatorEnabled' = cfg1.lowPowerIndicatorEnabled
           /\ lowPowerIndicatorPreset' = cfg1.lowPowerIndicatorPreset
           /\ lowPowerIndicatorThreshold' = cfg1.lowPowerIndicatorThreshold
           /\ lowPowerIndicatorReactivationThreshold' =
                cfg1.lowPowerIndicatorReactivationThreshold
           /\ lowPowerIndicatorDuration' = cfg1.lowPowerIndicatorDuration
           /\ IF ~initDone
              THEN /\ batteryPin' = newBatteryPin
                   /\ UNCHANGED <<batVars, nextReadTime, lastReadTime, initDone>>
              ELSE IF newBatteryPin # batteryPin
              THEN setupEffects(newBatteryPin, type1, interval1, alloc)
              ELSE UNCHANGED <<batteryPin, batVars, nextReadTime, lastReadTime, initDone>>
           /\ ev' = [NoEv("readFromConfig") EXCEPT !.ret = configComplete(doc),
                                                   !.doc = <<TRUE, doc.interval[1]>>]
           /\ UNCHANGED <<initializing, sampledOnce, indVars, hostVars, now, rolled, saved>>

\* ---------------------------------------------------- low-power indicator

\* applyPreset takes a byte
ToByte(x) == x % 256

\* a pin guard that lets the pin -1 through
pinValidLoose(pin) == pin >= -1

\* the guards of lowPowerIndicator()
pinValid(pin) == pin >= 0

reactivationReached(reactivation, lvl) == reactivation <= lvl

\* a threshold guard that lets a level equal to the threshold through
aboveThresholdStrict(threshold, lvl) == threshold < lvl

aboveThreshold(threshold, lvl) == threshold <= lvl

\* the stored activation time doubles as the "not active" marker
notActivated(activationTime) == ULe(activationTime, 1)

\* activation time plus duration*1000, an int added to an unsigned long
durationElapsed(activationTime, duration, t) == ULe(ULong(activationTime + duration * 1000), t)

\* lowPowerIndicator() at clock t with cached level lvl: the fields it leaves
\* and the presets it applies, in order
lowPowerIndicator(t, lvl) ==
  LET same == [done |-> lowPowerIndicationDone, act |-> lowPowerActivationTime,
               last |-> lastPreset, applied |-> <<>>, entered |-> FALSE,
               completed |-> FALSE]
      done1 == IF lowPowerIndicationDone
                  /\ reactivationReached(lowPowerIndicatorReactivationThreshold, lvl)
               THEN FALSE ELSE lowPowerIndicationDone
      enter == notActivated(lowPowerActivationTime)
      act1 == IF enter THEN t ELSE lowPowerActivationTime
      last1 == IF enter THEN ToInt8(currentPreset) ELSE lastPreset
      app1 == IF enter THEN <<ToByte(lowPowerIndicatorPreset)>> ELSE <<>>
      complete == durationElapsed(act1, lowPowerIndicatorDuration, t)
  IN  IF ~lowPowerIndicatorEnabled THEN same
      ELSE IF ~pinValid(batteryPin) THEN same
      ELSE IF aboveThreshold(lowPowerIndicatorThreshold, lvl) THEN [same EXCEPT !.done = done1]
      ELSE IF done1 THEN [same EXCEPT !.done = done1]
      ELSE [done |-> complete,
            act |-> IF complete THEN 0 ELSE act1,
            last |-> last1,
            applied |-> IF complete THEN Append(app1, ToByte(last1)) ELSE app1,
            entered |-> enter,
            completed |-> complete]

\* ------------------------------------------------------------------- loop

\* the reading is due
readingDue(t, next) == ~ULt(t, next)

\* a tick that reads whatever the pin is
nothingToReadNever(pin) == FALSE

\* nothing to read
nothingToRead(pin) == pin < 0

\* millivolts at the pin to battery millivolts (calibrated, divider of 50%)
voltageOf(rawValue) == (rawValue + Calibration) * 2

\* an auto-off that ignores its enable flag
autoOffDueAnyFlag(enabled, threshold, lvl) == threshold >= lvl

\* Auto off -- Master power off
autoOffDue(enabled, threshold, lvl) == enabled /\ threshold >= lvl

\* whether, since the last completed indication, a tick has seen a level of at
\* least the indicator threshold plus 10 ("fresh": none has completed yet)
armedSeen(lvl) ==
  IF hist.armed = "done" /\ lvl >= lowPowerIndicatorThreshold + 10
  THEN "rearmed" ELSE hist.armed

\* ----------------------------------------------------------------- report

\* dot2round : volts rounded to two decimals (millivolts to centivolts)
dot2round(x) == (x + 5) \div 10

\* (nextReadTime - millis()) / 1000 on unsigned longs: a difference read as
\* negative is the word 2^32 + d, and 2^32 = 4294967 * 1000 + 296
nextUpdate(next, t) ==
  LET d == next - t
  IN  IF d >= 0 THEN d \div 1000 ELSE 4294967 + ((296 + d) \div 1000)

\* a report that looks at the initializing flag before the pin
addToJsonInfoInitFirst ==
  IF initializing
  THEN [level |-> [kind |-> "init", value |-> 0],
        voltage |-> [kind |-> "init", value |-> 0],
        next |-> [kind |-> "value", value |-> 0]]
  ELSE IF batteryPin < 0
  THEN [level |-> [kind |-> "none", value |-> 0],
        voltage |-> [kind |-> "n/a", value |-> 0],
        next |-> [kind |-> "none", value |-> 0]]
  ELSE [level |-> [kind |-> "value", value |-> level],
        voltage |-> [kind |-> "value", value |-> voltage],
        next |-> [kind |-> "value", value |-> 0]]

\* addToJsonInfo : what the info page shows for level, voltage and next update
addToJsonInfo ==
  IF batteryPin < 0
  THEN [level |-> [kind |-> "none", value |-> 0],
        voltage |-> [kind |-> "n/a", value |-> 0],
        next |-> [kind |-> "none", value |-> 0]]
  ELSE IF initializing
  THEN [level |-> [kind |-> "init", value |-> 0],
        voltage |-> [kind |-> "init", value |-> 0],
        next |-> [kind |-> "value", value |-> nextUpdate(nextReadTime, now)]]
  ELSE [level |-> IF level < 0 THEN [kind |-> "invalid", value |-> 0]
                  ELSE [kind |-> "value", value |-> level],
        voltage |-> IF voltage < 0 THEN [kind |-> "invalid", value |-> 0]
                    ELSE [kind |-> "value", value |-> dot2round(voltage)],
        next |-> [kind |-> "value", value |-> nextUpdate(nextReadTime, now)]]

\* the indication followed by hist, after a tick that saw level lvl and did r
histAfter(r, lvl, lvlAfter) ==
  LET h1 == [hist EXCEPT !.armed = armedSeen(lvl)]
      h2 == IF r.entered /\ ~hist.active
            THEN [h1 EXCEPT !.active = TRUE, !.t0 = now, !.prev = currentPreset,
                            !.cfgSame = TRUE, !.low = TRUE, !.entries = 1]
            ELSE IF r.entered
            THEN [h1 EXCEPT !.entries = 2]
            ELSE h1
  IN  IF r.completed THEN [NoHist EXCEPT !.armed = "done"]
      ELSE IF h2.active
      THEN [h2 EXCEPT !.low = h2.low /\ lvlAfter < lowPowerIndicatorThreshold]
      ELSE h2

\* what a tick reports of the indication it worked on: the indication as it
\* stood when the tick began, or as the tick began it
evOf(r, lvl, due, sample, off) ==
  LET h == IF r.entered /\ ~hist.active
           THEN [hist EXCEPT !.t0 = now, !.prev = currentPreset, !.cfgSame = TRUE,
                             !.low = TRUE, !.entries = 1]
           ELSE IF r.entered THEN [hist EXCEPT !.entries = 2]
           ELSE hist
      inWindow == hist.active \/ r.entered
  IN  [op |-> "loop", skipped |-> FALSE, lvl |-> lvl,
       active0 |-> hist.active, armed |-> armedSeen(lvl),
       t0 |-> IF inWindow THEN h.t0 ELSE 0,
       prev |-> IF inWindow THEN h.prev ELSE 0,
       cfgSame |-> inWindow /\ h.cfgSame,
       low |-> inWindow /\ h.low,
       entries |-> IF inWindow THEN h.entries ELSE 0,
       entered |-> r.entered, completed |-> r.completed,
       applied |-> r.applied, due |-> due, sampled |-> sample,
       turnedOff |-> off, again |-> off /\ bri = 0, ret |-> FALSE, arg |-> 0,
       doc |-> <<FALSE, FALSE>>]

\* an indicator step that runs after the reading of its tick
indicatorLevelSampled(cached, sampled) == sampled

\* the level the indicator step of a tick reads: lowPowerIndicator() is called
\* before the reading, so the level the battery object holds from before
indicatorLevel(cached, sampled) == cached

\* loop() : nothing while the strip is updating; else the indicator, then the
\* schedule, then (pin valid) the reading, the level and the auto-off
loop(updating, rawValue) ==
  /\ initDone
  /\ IF updating
     THEN /\ ev' = [NoEv("loop") EXCEPT !.skipped = TRUE, !.lvl = level,
                                        !.active0 = hist.active, !.armed = hist.armed]
          /\ UNCHANGED <<cfgVars, batVars, schedVars, indVars, hostVars, now, hist, writes, rolled, saved>>
     ELSE LET due == readingDue(now, nextReadTime)
              sample == due /\ ~nothingToRead(batteryPin)
              voltage1 == IF sample THEN voltageOf(rawValue) ELSE voltage
              level1 == IF sample THEN calculateLevel(batType, voltage1) ELSE level
              r == lowPowerIndicator(now, indicatorLevel(level, level1))
              off == sample /\ autoOffDue(autoOffEnabled, autoOffThreshold, level1)
              h == histAfter(r, level, level1)
          IN  /\ lowPowerIndicationDone' = r.done
              /\ lowPowerActivationTime' = r.act
              /\ lastPreset' = r.last
              /\ currentPreset' = IF r.applied = <<>> THEN currentPreset
                                  ELSE r.applied[Len(r.applied)]
              /\ nextReadTime' = IF due THEN ULong(now + readingInterval) ELSE nextReadTime
              /\ lastReadTime' = IF due THEN now ELSE lastReadTime
              /\ initializing' = IF sample THEN FALSE ELSE initializing
              /\ sampledOnce' = (sampledOnce \/ sample)
              /\ voltage' = voltage1
              /\ level' = level1
              /\ bri' = IF off THEN 0 ELSE bri
              /\ hist' = h
              /\ ev' = evOf(r, level, due, sample, off)
              /\ UNCHANGED <<cfgVars, batType, initDone, now, writes, rolled, saved>>

\* ------------------------------------------------------------ environment

\* millis() : the clock has moved on by d when the usermod is called next.
\* The clock is an input of every call; nothing of the usermod runs in
\* between.  The approach to the rollover is followed once (rolled), after
\* setup(), from the end of the stretch followed after power-on and with no
\* indication running.
millis(d) ==
  LET t == ULong(now + d)
  IN  /\ d # 0
      /\ OnGrid(t)
      /\ t >= 0 => t <= (IF rolled THEN PostNow ELSE MaxNow)
      /\ (now >= 0 /\ t < 0) => (~rolled /\ initDone /\ now = MaxNow /\ ~hist.active)
      /\ now' = t
      /\ rolled' = (rolled \/ t < 0)
      /\ ev' = NoEv("host")
      /\ UNCHANGED <<cfgVars, batVars, schedVars, indVars, hostVars, hist, writes, saved>>

\* the user selects a preset on the host
selectPreset(p) ==
  /\ initDone
  /\ currentPreset # p
  /\ currentPreset' = p
  /\ ev' = NoEv("host")
  /\ UNCHANGED <<cfgVars, batVars, schedVars, indVars, bri, now, hist, writes, rolled, saved>>

\* --------------------------------------------------------------- documents

\* a stored configuration: a LiPo battery read every 3 s (the stored 1000 ms
\* is raised to the minimum), auto-off at the default 10 %, the indicator
\* enabled at the default 20 % showing preset 3 for 2 s
BaseDoc ==
  [battery |-> TRUE, pin |-> Absent, type |-> Val("lipo"), interval |-> Val(1000),
   aoEnabled |-> AbsentFlag, aoThreshold |-> Absent, lpEnabled |-> Val(TRUE),
   lpPreset |-> Val(3), lpThreshold |-> Absent, lpDuration |-> Val(2)]

\* the stored configurations tried at boot: BaseDoc and its one-field variations
BootDocs ==
  { BaseDoc,
    [BaseDoc EXCEPT !.type = AbsentType],
    [BaseDoc EXCEPT !.aoEnabled = Val(FALSE)],
    [BaseDoc EXCEPT !.lpEnabled = AbsentFlag],
    [BaseDoc EXCEPT !.lpThreshold = Val(120)] } \cup
  { [BaseDoc EXCEPT !.lpDuration = Val(d)] : d \in DurArgs }

\* the documents a settings save sends
RuntimeDocs ==
  { NoBattery,
    [NoBattery EXCEPT !.battery = TRUE, !.lpEnabled = Val(FALSE)] } \cup
  { [NoBattery EXCEPT !.battery = TRUE, !.pin = Val(p)] : p \in PinArgs } \cup
  { [NoBattery EXCEPT !.battery = TRUE, !.lpThreshold = Val(t)] : t \in ThrArgs }

\* ----------------------------------------------------------- specification

Init ==
  /\ batteryPin = DefaultPin
  /\ bcfgType = "unknown"
  /\ batType = "none"
  /\ voltage = InitialVoltage
  /\ level = InitialLevel
  /\ readingInterval = DefaultInterval
  /\ nextReadTime = 0
  /\ lastReadTime = 0
  /\ autoOffEnabled = DefaultAutoOffEnabled
  /\ autoOffThreshold = DefaultAutoOffThreshold
  /\ lowPowerIndicatorEnabled = DefaultIndicatorEnabled
  /\ lowPowerIndicatorPreset = DefaultIndicatorPreset
  /\ lowPowerIndicatorThreshold = DefaultIndicatorThreshold
  /\ lowPowerIndicatorReactivationThreshold = reactivationThresholdFor(DefaultIndicatorThreshold)
  /\ lowPowerIndicatorDuration = DefaultIndicatorDuration
  /\ lowPowerIndicationDone = FALSE
  /\ lowPowerActivationTime = 0
  /\ lastPreset = 0
  /\ initDone = FALSE
  /\ initializing = TRUE
  /\ sampledOnce = FALSE
  /\ now = BootSeconds * 1000
  /\ bri = 128
  /\ currentPreset = 0
  /\ ev = NoEv("init")
  /\ hist = NoHist
  /\ writes = 0
  /\ rolled = FALSE
  /\ saved = NoBattery

\* boot: the stored configuration is read once, before setup()
Boot == ~initDone /\ ev.op = "init" /\ \E doc \in BootDocs : readFromConfig(0, doc, TRUE)

Setup == \E alloc \in BOOLEAN : setup(alloc)

Loop == \E updating \in BOOLEAN, rawValue \in RawReadings : loop(updating, rawValue)

Millis == \E d \in ClockSteps \cup {FarStep(now)} : millis(d)

SelectPreset == \E p \in HostPresets : selectPreset(p)

\* the settings page saves, once the usermod runs
Reload == initDone /\ \E doc \in RuntimeDocs, alloc \in BOOLEAN : readFromConfig(MaxWrites, doc, alloc)

\* the usermod as WLED drives it: boot load, setup(), then ticks and reloads
Next ==
  \/ Boot
  \/ Setup
  \/ Loop
  \/ Millis
  \/ SelectPreset
  \/ Reload

Spec == Init /\ [][Next]_vars

\* ------------------------------------------- the configuration on its own
\* Any caller of the public setters and of readFromConfig, before setup().

CfgDocs ==
  { NoBattery } \cup
  { [NoBattery EXCEPT !.battery = TRUE, !.aoEnabled = ae, !.aoThreshold = at,
                      !.lpEnabled = le, !.lpThreshold = lt] :
      ae \in {AbsentFlag, Val(TRUE), Val(FALSE)}, at \in {Absent, Val(100)},
      le \in {AbsentFlag, Val(TRUE), Val(FALSE)}, lt \in {Absent, Val(5)} } \cup
  { [NoBattery EXCEPT !.battery = TRUE, !.aoThreshold = Val(t)] : t \in CfgThrArgs } \cup
  { [NoBattery EXCEPT !.battery = TRUE, !.lpThreshold = Val(t)] : t \in CfgThrArgs } \cup
  { [NoBattery EXCEPT !.battery = TRUE, !.interval = Val(x)] : x \in CfgIntervalArgs } \cup
  { [NoBattery EXCEPT !.battery = TRUE, !.lpPreset = Val(p), !.lpDuration = Val(d)] :
      p \in CfgPresetArgs, d \in CfgDurArgs }

CfgReadFromConfig == \E doc \in CfgDocs : readFromConfig(0, doc, TRUE)

CfgSetReadingInterval == \E x \in CfgIntervalArgs : setReadingInterval(0, x)

CfgSetAutoOffEnabled == \E b \in BOOLEAN : setAutoOffEnabled(0, b)

CfgSetAutoOffThreshold == \E t \in CfgThrArgs : setAutoOffThreshold(0, t)

CfgSetLowPowerIndicatorEnabled == \E b \in BOOLEAN : setLowPowerIndicatorEnabled(0, b)

CfgSetLowPowerIndicatorPreset == \E p \in CfgPresetArgs : setLowPowerIndicatorPreset(0, p)

CfgSetLowPowerIndicatorThreshold == \E t \in CfgThrArgs : setLowPowerIndicatorThreshold(0, t)

CfgSetLowPowerIndicatorDuration == \E d \in CfgDurArgs : setLowPowerIndicatorDuration(0, d)

NextCfg ==
  \/ CfgReadFromConfig
  \/ CfgSetReadingInterval
  \/ CfgSetAutoOffEnabled
  \/ CfgSetAutoOffThreshold
  \/ CfgSetLowPowerIndicatorEnabled
  \/ CfgSetLowPowerIndicatorPreset
  \/ CfgSetLowPowerIndicatorThreshold
  \/ CfgSetLowPowerIndicatorDuration

SpecCfg == Init /\ [][NextCfg]_vars

\* ------------------------------------------------ saving the configuration
\* setup(), any caller of the public setters, and the configuration file:
\* addToConfig writes the document, readFromConfig loads the document last
\* written, in the object that wrote it or in a new one after a restart.
\* Each is a call of its own; any of the others may run in between.

\* addToConfig : the document goes to the configuration file; the usermod
\* keeps its state.  Before setup() the call ends the process (see
\* addToConfig): nothing is written.
Save ==
  /\ ~addToConfig.crashed
  /\ saved' = addToConfig.doc
  /\ ev' = NoEv("addToConfig")
  /\ UNCHANGED <<cfgVars, batVars, schedVars, indVars, hostVars, now, hist, writes, rolled>>

\* readFromConfig of the document in the configuration file
Load == saved.battery /\ \E alloc \in BOOLEAN : readFromConfig(0, saved, alloc)

\* a restart: a new UsermodBattery with the field initializers; the
\* configuration file stays
Restart ==
  /\ saved.battery
  /\ batteryPin' = DefaultPin
  /\ bcfgType' = "unknown"
  /\ batType' = "none"
  /\ voltage' = InitialVoltage
  /\ level' = InitialLevel
  /\ readingInterval' = DefaultInterval
  /\ nextReadTime' = 0
  /\ lastReadTime' = 0
  /\ autoOffEnabled' = DefaultAutoOffEnabled
  /\ autoOffThreshold' = DefaultAutoOffThreshold
  /\ lowPowerIndicatorEnabled' = DefaultIndicatorEnabled
  /\ lowPowerIndicatorPreset' = DefaultIndicatorPreset
  /\ lowPowerIndicatorThreshold' = DefaultIndicatorThreshold
  /\ lowPowerIndicatorReactivationThreshold' = reactivationThresholdFor(DefaultIndicatorThreshold)
  /\ lowPowerIndicatorDuration' = DefaultIndicatorDuration
  /\ lowPowerIndicationDone' = FALSE
  /\ lowPowerActivationTime' = 0
  /\ lastPreset' = 0
  /\ initDone' = FALSE
  /\ initializing' = TRUE
  /\ sampledOnce' = FALSE
  /\ ev' = NoEv("restart")
  /\ hist' = NoHist
  /\ UNCHANGED <<hostVars, now, writes, rolled, saved>>

SaveSetReadingInterval == \E x \in CfgIntervalArgs : setReadingInterval(MaxCalls, x)

SaveSetAutoOffEnabled == \E b \in BOOLEAN : setAutoOffEnabled(MaxCalls, b)

SaveSetAutoOffThreshold == \E t \in CfgThrArgs : setAutoOffThreshold(MaxCalls, t)

SaveSetLowPowerIndicatorEnabled == \E b \in BOOLEAN : setLowPowerIndicatorEnabled(MaxCalls, b)

SaveSetLowPowerIndicatorPreset == \E p \in CfgPresetArgs : setLowPowerIndicatorPreset(MaxCalls, p)

SaveSetLowPowerIndicatorThreshold == \E t \in CfgThrArgs : setLowPowerIndicatorThreshold(MaxCalls, t)

SaveSetLowPowerIndicatorDuration == \E d \in CfgDurArgs : setLowPowerIndicatorDuration(MaxCalls, d)

NextSave ==
  \/ Setup
  \/ Save
  \/ Load
  \/ Restart
  \/ SaveSetReadingInterval
  \/ SaveSetAutoOffEnabled
  \/ SaveSetAutoOffThreshold
  \/ SaveSetLowPowerIndicatorEnabled
  \/ SaveSetLowPowerIndicatorPreset
  \/ SaveSetLowPowerIndicatorThreshold
  \/ SaveSetLowPowerIndicatorDuration

SpecSave == Init /\ [][NextSave]_vars

\* ================================================================== claims

\* ---- the configuration (SpecCfg)

ThresholdSetterOps == {"setAutoOffThreshold", "setLowPowerIndicatorThreshold"}

\* indicator enabled implies autoOffThreshold < lowPowerIndicatorThreshold
ThresholdsOrdered == lowPowerIndicatorEnabled => autoOffThreshold < lowPowerIndicatorThreshold

\* C1: with the two enable flags fixed, a call of setAutoOffThreshold or of
\* setLowPowerIndicatorThreshold made in a state where the thresholds are
\* ordered (indicator enabled implies autoOffThreshold <
\* lowPowerIndicatorThreshold) leaves them ordered, so every sequence of such
\* calls from the defaults keeps them ordered after each call.
C1_ThresholdSettersKeepOrder ==
  [][ (ev'.op \in ThresholdSetterOps /\ ThresholdsOrdered) => ThresholdsOrdered' ]_vars

\* C6: in every state reached by the enable setters, the threshold setters and
\* readFromConfig, indicator enabled implies autoOffThreshold <
\* lowPowerIndicatorThreshold.
C6_OrderedInEveryState ==
  lowPowerIndicatorEnabled => lowPowerIndicatorThreshold > autoOffThreshold

\* C9: after a direct setLowPowerIndicatorThreshold call and after a
\* readFromConfig load that leave a threshold of at most 100,
\* lowPowerIndicatorReactivationThreshold is the resulting
\* lowPowerIndicatorThreshold plus 10.
C9_ReactivationFollowsThreshold ==
  (ev.op \in {"setLowPowerIndicatorThreshold", "readFromConfig"}
     /\ lowPowerIndicatorThreshold <= 100) =>
    lowPowerIndicatorReactivationThreshold = lowPowerIndicatorThreshold + 10

\* C10: in every state in which the indicator is disabled,
\* lowPowerIndicatorThreshold is at least 5.
C10_FloorWhileDisabled ==
  ~lowPowerIndicatorEnabled => lowPowerIndicatorThreshold >= 5

\* ---- the engine (Spec)

\* the last operation was a tick that ran (the strip was not updating)
Ticked == ev.op = "loop" /\ ~ev.skipped

\* the tick worked on an indication: one that was running when the tick began,
\* or one the tick began
InIndication == Ticked /\ (ev.active0 \/ ev.entered)

\* the duration has passed since the indication began at ev.t0 (a clock read as
\* negative is later than every clock read as non-negative)
Elapsed ==
  IF ev.t0 >= 0 /\ now < 0 THEN TRUE
  ELSE now - ev.t0 >= lowPowerIndicatorDuration * 1000

\* the tick has completed the indication: done flag set, activation time
\* cleared, the preset that was current at entry applied last
CompletedNow ==
  /\ ev.completed
  /\ lowPowerIndicationDone
  /\ lowPowerActivationTime = 0
  /\ ev.applied # <<>>
  /\ ev.applied[Len(ev.applied)] = ev.prev

\* the tick has left the indication running
StillActive == ~ev.completed /\ ~lowPowerIndicationDone

\* C2: an indication that began at t0 (t0 > 1, the configuration unchanged
\* since, the clock not rolled over) is still running after every tick with
\* now < t0 + duration*1000 and is completed by the first tick with
\* now >= t0 + duration*1000, whatever levels were sampled in between.
C2_ActiveForTheDuration ==
  (InIndication /\ ev.cfgSame /\ ~rolled /\ ev.t0 > 1) =>
    IF Elapsed THEN CompletedNow ELSE StillActive

\* C3: after an indication has completed, a tick begins a new one only if,
\* since the completion, some tick has seen a cached level of at least
\* lowPowerIndicatorThreshold + 10.
C3_NoEntryBeforeRecovery ==
  (Ticked /\ ev.entered /\ ~ev.active0) => ev.armed # "done"

\* C4: a tick whose cached level is at or above lowPowerIndicatorThreshold does
\* not begin an indication: the activation time and the saved preset stay as
\* they are and no preset is applied.
C4_NoEntryAtOrAboveThreshold ==
  [][ (ev'.op = "loop" /\ ~ev'.skipped /\ level >= lowPowerIndicatorThreshold) =>
        /\ ~ev'.entered
        /\ ev'.applied = <<>>
        /\ lowPowerActivationTime' = lowPowerActivationTime
        /\ lastPreset' = lastPreset
        /\ currentPreset' = currentPreset ]_vars

\* a tick that ran with the cached level equal to the threshold, the indicator
\* enabled, the pin valid and nothing latched, and began no indication
C4_Witness ==
  /\ Ticked
  /\ ev.lvl = lowPowerIndicatorThreshold
  /\ lowPowerIndicatorEnabled
  /\ pinValid(batteryPin)
  /\ ~lowPowerIndicationDone
  /\ ~ev.active0
  /\ ~ev.entered

\* C5: while the cached level is a measured one (not the -1 marker) that stays
\* below a threshold of at most 100 and the configuration is unchanged, an indication that began at t0 is still running (the previous
\* preset not applied again) after every tick with now < t0 + duration*1000,
\* and the first tick with now >= t0 + duration*1000 sets the done flag, clears
\* the activation time and applies the preset that was current at t0.
C5_CompletesOnTime ==
  (InIndication /\ ev.cfgSame /\ ev.low /\ ev.lvl >= 0 /\ lowPowerIndicatorThreshold <= 100) =>
    IF Elapsed THEN CompletedNow ELSE StillActive /\ ev.applied \in {<<>>, <<ToByte(lowPowerIndicatorPreset)>>}

\* C7: while batteryPin < 0 the report shows the "n/a" marker, and a tick
\* issues no shutdown, begins no indication, applies no preset and leaves
\* voltage and level as they are.
C7_InvalidPinInert ==
  /\ [](batteryPin < 0 => addToJsonInfo.voltage.kind = "n/a")
  /\ [][ (ev'.op = "loop" /\ batteryPin < 0) =>
           /\ ~ev'.sampled
           /\ ~ev'.turnedOff
           /\ bri' = bri
           /\ ~ev'.entered
           /\ ev'.applied = <<>>
           /\ currentPreset' = currentPreset
           /\ voltage' = voltage
           /\ level' = level ]_vars

\* a due tick with the pin invalid, the indicator enabled and not latched, and
\* the cached level below the indicator threshold
C7_Witness ==
  /\ Ticked
  /\ batteryPin < 0
  /\ ev.due
  /\ lowPowerIndicatorEnabled
  /\ ~lowPowerIndicationDone
  /\ level < lowPowerIndicatorThreshold
  /\ addToJsonInfo.voltage.kind = "n/a"

\* C8: a tick takes a sample exactly when it runs, the reading is due and the
\* pin is valid; it issues the shutdown (brightness 0) exactly when it takes a
\* sample, autoOffEnabled is true and the level of that sample is at most
\* autoOffThreshold, whether or not an earlier sample has already issued it.
C8_ShutdownOnEverySampleAtOrBelow ==
  ev.op = "loop" =>
    /\ ev.sampled <=> (~ev.skipped /\ ev.due /\ batteryPin >= 0)
    /\ ev.turnedOff <=> (ev.sampled /\ autoOffEnabled /\ level <= autoOffThreshold)
    /\ ev.turnedOff => bri = 0

\* a sample of a measured level that issues the shutdown while the brightness
\* is already 0 from an earlier one, one reading interval before
C8_Witness ==
  /\ ev.op = "loop"
  /\ ev.again
  /\ ~rolled
  /\ level >= 0
  /\ level <= autoOffThreshold

\* ---- the setters one by one (SpecCfg)

\* t clamped to 0..100
Clamp(t) == IF t < 0 THEN 0 ELSE IF t > 100 THEN 100 ELSE t

\* C11: a call setAutoOffThreshold(t) leaves autoOffThreshold equal to t
\* clamped to 0..100 when the indicator is disabled, and to the smaller of that
\* and lowPowerIndicatorThreshold - 1 when the indicator is enabled.
C11_AutoOffThresholdResolved ==
  [][ ev'.op = "setAutoOffThreshold" =>
        autoOffThreshold' =
          IF lowPowerIndicatorEnabled
          THEN (IF Clamp(ev'.arg) <= lowPowerIndicatorThreshold - 1
                THEN Clamp(ev'.arg) ELSE lowPowerIndicatorThreshold - 1)
          ELSE Clamp(ev'.arg) ]_vars

\* the indicator enabled at threshold 15, setAutoOffThreshold(20) has left 14
C11_Witness ==
  /\ ev.op = "setAutoOffThreshold"
  /\ ev.arg = 20
  /\ lowPowerIndicatorEnabled
  /\ lowPowerIndicatorThreshold = 15
  /\ autoOffThreshold = 14

\* C12: readingInterval is at least 3000 in every state reached by
\* setReadingInterval calls and readFromConfig loads, and a call
\* setReadingInterval(x) leaves 3000 for x < 3000 and x for x >= 3000.
C12_IntervalAtLeastMinimum ==
  /\ readingInterval >= 3000
  /\ ev.op = "setReadingInterval" =>
        readingInterval = (IF ev.arg < 3000 THEN 3000 ELSE ev.arg)

\* setReadingInterval(2999) has left 3000
C12_Witness ==
  /\ ev.op = "setReadingInterval"
  /\ ev.arg = 2999
  /\ readingInterval = 3000

\* ---- the report and the schedule (Spec)

\* C13: the report shows "n/a" when the pin is invalid, whatever the
\* initializing flag; "init" for level and voltage when the pin is valid and
\* no sample has been taken yet; else the level and the rounded voltage, each
\* replaced by "invalid" when negative.  So "init" is not shown once a sample
\* has been taken and "invalid" is not shown before one.
C13_ReportPrecedence ==
  LET r == addToJsonInfo
  IN  /\ batteryPin < 0 => r.voltage.kind = "n/a" /\ r.level.kind = "none"
      /\ (batteryPin >= 0 /\ ~sampledOnce) =>
            r.level.kind = "init" /\ r.voltage.kind = "init"
      /\ (batteryPin >= 0 /\ sampledOnce) =>
            /\ r.level = (IF level < 0 THEN [kind |-> "invalid", value |-> 0]
                          ELSE [kind |-> "value", value |-> level])
            /\ r.voltage = (IF voltage < 0 THEN [kind |-> "invalid", value |-> 0]
                            ELSE [kind |-> "value", value |-> (voltage + 5) \div 10])
      /\ sampledOnce => r.level.kind # "init" /\ r.voltage.kind # "init"
      /\ ~sampledOnce => r.level.kind # "invalid" /\ r.voltage.kind # "invalid"

\* the pin invalid while the initializing flag is still set: "n/a", not "init"
C13_Witness ==
  /\ initDone
  /\ batteryPin < 0
  /\ initializing
  /\ addToJsonInfo.voltage.kind = "n/a"

\* C14: readFromConfig on a document without the Battery object returns false
\* and leaves the configuration, the battery, the schedule and the indicator
\* as they are; on a document with it, it returns true exactly when the
\* interval key is present.
C14_MissingObjectChangesNothing ==
  [][ ev'.op = "readFromConfig" =>
        /\ ~ev'.doc[1] => (~ev'.ret /\ UNCHANGED <<cfgVars, batVars, schedVars, indVars>>)
        /\ ev'.doc[1] => (ev'.ret <=> ev'.doc[2]) ]_vars

\* a settings save without the Battery object, on a running usermod whose
\* configuration differs from the defaults
C14_Witness ==
  /\ ev.op = "readFromConfig"
  /\ ~ev.doc[1]
  /\ ~ev.ret
  /\ initDone
  /\ lowPowerIndicatorEnabled # DefaultIndicatorEnabled
  /\ readingInterval # DefaultInterval

\* a step that is a tick that ran
TickStep == ev'.op = "loop" /\ ~ev'.skipped

\* a tick before the reading is due takes no sample and leaves the schedule,
\* the voltage and the level as they are
NotDueKeepsSchedule ==
  (TickStep /\ ULt(now', nextReadTime)) =>
    /\ ~ev'.due
    /\ ~ev'.sampled
    /\ UNCHANGED <<nextReadTime, lastReadTime, voltage, level>>

\* a tick at or after nextReadTime sets nextReadTime to now + readingInterval,
\* with the pin valid or not
DueReschedules ==
  (TickStep /\ ~ULt(now', nextReadTime)) =>
    /\ ev'.due
    /\ nextReadTime' = ULong(now' + readingInterval)
    /\ lastReadTime' = now'

\* of two due ticks with no other operation between them, the later one comes
\* at least the interval scheduled by the earlier one after it (the ticks that
\* pass while the clock runs up to the rollover take longer than any interval)
DueTicksApart ==
  (ev.op = "loop" /\ ev.due /\ TickStep /\ ev'.due /\ ~(now >= 0 /\ now' < 0)) =>
    now' - lastReadTime >= nextReadTime - lastReadTime

\* C15: a tick with now < nextReadTime takes no sample and leaves
\* nextReadTime, lastReadTime, voltage and level unchanged; a tick with
\* now >= nextReadTime sets nextReadTime = now + readingInterval whether or not
\* the pin is valid; and two consecutive due ticks are at least the earlier
\* one's reading interval apart.
C15_DueTicksAnIntervalApart ==
  [][ NotDueKeepsSchedule /\ DueReschedules /\ DueTicksApart ]_vars

\* the indicator step of a tick begins an indication, judged on the fields and
\* the cached level as they are before the tick
EntryCalledFor ==
  /\ lowPowerIndicatorEnabled
  /\ batteryPin >= 0
  /\ level < lowPowerIndicatorThreshold
  /\ ~(lowPowerIndicationDone /\ level < lowPowerIndicatorReactivationThreshold)
  /\ ULe(lowPowerActivationTime, 1)

\* C16 as stated: every invocation of loop() evaluates the indicator, on the
\* level cached before the invocation: it begins an indication exactly when
\* the fields and the cached level call for it, due or not.
C16_EveryInvocationEvaluates ==
  [][ ev'.op = "loop" => (ev'.entered <=> EntryCalledFor) ]_vars

\* C16 amended: every invocation of loop() during which the strip is not
\* updating evaluates the indicator, before the schedule check and on the
\* level cached before the invocation: it begins an indication exactly when
\* the fields and the cached level call for it, due or not.
C16_EveryRunningTickEvaluates ==
  [][ TickStep => (ev'.entered <=> EntryCalledFor) ]_vars

\* a due tick that began an indication on a cached level below the threshold
\* and then sampled a level at or above it
C16_Witness ==
  /\ Ticked
  /\ ev.entered
  /\ ev.sampled
  /\ ev.lvl < lowPowerIndicatorThreshold
  /\ level >= lowPowerIndicatorThreshold

\* C17: initializing is true in every state before the first reading (a due
\* tick with a valid pin) and false in every state after it; it never becomes
\* true again; a due tick with an invalid pin leaves initializing, voltage and
\* level unchanged.
C17_InitializingUntilFirstReading ==
  /\ initializing <=> ~sampledOnce
  /\ [][ /\ initializing' <=> ~sampledOnce'
         /\ initializing' => initializing
         /\ (TickStep /\ ev'.due /\ batteryPin >= 0) => ~initializing'
         /\ (TickStep /\ ev'.due /\ batteryPin < 0) =>
              UNCHANGED <<initializing, voltage, level, sampledOnce>> ]_vars

\* a due tick with an invalid pin, before any reading
C17_Witness ==
  /\ Ticked
  /\ ev.due
  /\ batteryPin < 0
  /\ ~ev.sampled
  /\ initializing

\* the guard of the indicator step fails: indicator disabled or pin invalid
GuardFails == ~lowPowerIndicatorEnabled \/ batteryPin < 0

\* the machine is Idle: no indication running, none done
Idle == ULe(lowPowerActivationTime, 1) /\ ~lowPowerIndicationDone

\* C18: on a tick where the indicator is disabled or the pin is invalid, the
\* indicator step applies no preset and leaves the done flag, the activation
\* time and the saved previous preset unchanged; a machine that is Idle while
\* the guard fails is Idle after every step that leaves the guard failing.
C18_GuardFailsFreezesIndicator ==
  [][ /\ (TickStep /\ GuardFails) =>
           /\ ev'.applied = <<>>
           /\ ~ev'.entered
           /\ ~ev'.completed
           /\ UNCHANGED <<lowPowerIndicationDone, lowPowerActivationTime, lastPreset,
                          currentPreset>>
      /\ (GuardFails /\ GuardFails' /\ Idle) => Idle' ]_vars

\* a tick with the indicator enabled, the pin invalid and the cached level
\* below the threshold, that left the machine Idle
C18_Witness ==
  /\ Ticked
  /\ lowPowerIndicatorEnabled
  /\ batteryPin < 0
  /\ ev.lvl < lowPowerIndicatorThreshold
  /\ Idle
  /\ ev.applied = <<>>

\* C19: the invalid level -1 never triggers a power action: no reading whose
\* computed level is -1 turns the light off, and no tick whose cached level is
\* -1 begins an indication.
C19_InvalidLevelNoPowerAction ==
  [][ TickStep =>
        /\ (ev'.sampled /\ level' = -1) => ~ev'.turnedOff
        /\ (level = -1) => ~ev'.entered ]_vars

\* C20: the entry actions of an indication run once: no tick repeats them
\* while the indication it began is running, whatever the clock read at the
\* activation, and the preset applied on completion is the one that was
\* current when the indication began. (Stated for valid levels and thresholds
\* within 0..100.)
C20_EntryOncePerIndication ==
  [][ (TickStep /\ ev'.lvl >= 0 /\ lowPowerIndicatorThreshold <= 100) =>
        /\ ev'.active0 => ~ev'.entered
        /\ (ev'.completed /\ ev'.applied # <<>>) =>
             ev'.applied[Len(ev'.applied)] = ToByte(ev'.prev) ]_vars

\* C21: the reactivation threshold is above the indicator threshold: the
\* int8_t sum threshold + 10 never wraps. Stated for the states right after a
\* load of a document with the Battery object, where the reactivation
\* threshold has just been recomputed from the indicator threshold.
C21_HysteresisBandPositive ==
  (ev.op = "readFromConfig" /\ ev.doc[1]) =>
     lowPowerIndicatorReactivationThreshold > lowPowerIndicatorThreshold

\* the seven fields a load of doc leaves in place of the ones held now
RoundTripFields(c) ==
  <<c.autoOffEnabled, c.autoOffThreshold, c.lowPowerIndicatorEnabled,
    c.lowPowerIndicatorThreshold, c.lowPowerIndicatorPreset, c.lowPowerIndicatorDuration,
    c.readingInterval>>

HeldFields ==
  <<autoOffEnabled, autoOffThreshold, lowPowerIndicatorEnabled,
    lowPowerIndicatorThreshold, lowPowerIndicatorPreset, lowPowerIndicatorDuration,
    readingInterval>>

\* documents that carry every value and satisfy the threshold invariants:
\* thresholds within 0..100, the auto-off threshold below the indicator
\* threshold, the indicator threshold at least 5, the interval at least 3000
OrderedDocs ==
  { [NoBattery EXCEPT !.battery = TRUE, !.interval = Val(4000),
                      !.aoEnabled = Val(ae), !.aoThreshold = Val(at),
                      !.lpEnabled = Val(le), !.lpThreshold = Val(lt),
                      !.lpPreset = Val(p), !.lpDuration = Val(d)] :
      ae \in BOOLEAN, le \in BOOLEAN,
      at \in {t \in CfgThrArgs : t >= 0 /\ t <= 100},
      lt \in {t \in CfgThrArgs : t >= 5 /\ t <= 100},
      p \in CfgPresetArgs, d \in CfgDurArgs }

OrderedDocsBelow == { doc \in OrderedDocs : doc.aoThreshold[2] < doc.lpThreshold[2] }

\* the seven fields as a document carries them
DocFields(doc) ==
  <<doc.aoEnabled[2], doc.aoThreshold[2], doc.lpEnabled[2], doc.lpThreshold[2],
    doc.lpPreset[2], doc.lpDuration[2], doc.interval[2]>>

\* a load that follows the save with no setter call in between: in the object
\* that saved, or in a new one after a restart
LoadsTheSave == ev.op \in {"addToConfig", "restart"} /\ ev'.op = "readFromConfig"

\* the first half of C22: loading the document addToConfig wrote leaves the
\* seven fields as they were when it was written
SaveThenLoadKeeps == [][LoadsTheSave => HeldFields' = DocFields(saved)]_vars

\* the second half of C22: a document that satisfies the threshold invariants
\* loads as it is written, whatever configuration is held
OrderedDocLoadsAsWritten ==
  \A doc \in OrderedDocsBelow :
    RoundTripFields(loadedConfig(doc)) = DocFields(doc)

\* C22: config round trip: in every configuration reachable through the
\* setters, saving with addToConfig and loading the result with
\* readFromConfig leaves the seven fields unchanged, and a document whose
\* values satisfy the threshold invariants loads as exactly those values.
C22_ConfigRoundTrip == SaveThenLoadKeeps /\ []OrderedDocLoadsAsWritten

\* C23: in every state in which the report can be requested (after setup(),
\* with a valid pin) its "Next update" value, (nextReadTime - now) / 1000 on
\* unsigned milliseconds, is at most readingInterval / 1000, also between
\* ticks when now has passed nextReadTime.
C23_NextUpdateBounded ==
  (initDone /\ addToJsonInfo.next.kind = "value") =>
     addToJsonInfo.next.value <= readingInterval \div 1000

====
